---- MODULE Spec2Model ----
(***************************************************************************)
(* Shift assignment engines of shift-management: the balancer              *)
(* (app/api/optimize/route.js) and the scheduler                           *)
(* (app/api/generate-shift/route.js), both named optimizeShift.            *)
(*                                                                         *)
(* A behaviour is one caller holding one request body: the engine is run   *)
(* on it (validation, set-up, one step per element of the date list,       *)
(* result shaping) and may then be run again on the same body.             *)
(*                                                                         *)
(* Calendar dates are the ISO strings of consecutive days, written here as *)
(* day numbers: day d is the string "2024-01-0d".  JavaScript's undefined  *)
(* is the empty set and a present value v is {v}.                          *)
(***************************************************************************)
EXTENDS Integers, Sequences, FiniteSets, TLC

\* ------------------------------------------------------------------ bounds

\* Longest worker list and longest date list of the enumerated requests.
MaxStaff == 2
MaxDates == 2
\* Largest number of (worker, date) pairs of an enumerated scheduler request.
MaxCells == 4
\* Number of times the caller runs the engine on the same request body.
MaxRuns == 2
\* Largest number of (worker, date) pairs of a scheduler request that is run
\* again.
MaxRerunCells == 1
\* Number of clicks on the generate button that are followed.
MaxClicks == 2
\* Last day the date fields of the generation form can hold.
MaxRangeDays == 2
\* Number of requests to the POST handlers that are followed.
MaxPosts == 2

\* ------------------------------------------------------- values and helpers

Undefined == {}
Some(v) == {v}
ValueOf(opt) == CHOOSE v \in opt : TRUE

\* a ?? b on an optional value; also a || b on an optional id or name, every
\* id and name of the model being a non-empty string.
OrElse(opt, default) == IF opt = Undefined THEN default ELSE ValueOf(opt)

Range(seq) == {seq[i] : i \in 1..Len(seq)}

SeqsUpTo(S, n) == UNION {[1..k -> S] : k \in 0..n}

Min2(a, b) == IF a <= b THEN a ELSE b
Max2(a, b) == IF a >= b THEN a ELSE b

RECURSIVE SumOver(_, _)
SumOver(f, S) ==
    IF S = {} THEN 0
    ELSE LET x == CHOOSE y \in S : TRUE IN f[x] + SumOver(f, S \ {x})

\* Array.prototype.sort((a, b) => a.score - b.score): a stable sort, done
\* here by inserting each element after the elements that do not score more.
InsertByScore(sorted, x) ==
    LET n == Cardinality({i \in 1..Len(sorted) : sorted[i].score <= x.score})
    IN  SubSeq(sorted, 1, n) \o <<x>> \o SubSeq(sorted, n + 1, Len(sorted))

RECURSIVE SortByScore(_)
SortByScore(seq) ==
    IF seq = <<>> THEN <<>>
    ELSE InsertByScore(SortByScore(SubSeq(seq, 1, Len(seq) - 1)), seq[Len(seq)])

\* --------------------------------------------------------- object key order

\* Property keys that are canonical array indices, with their numeric value.
IndexKeys == {"1", "2"}
IndexValue(key) == IF key = "1" THEN 1 ELSE 2

\* The keys of an object in the order of their first insertion.
RECURSIVE FirstInsertions(_)
FirstInsertions(keys) ==
    IF keys = <<>> THEN <<>>
    ELSE LET rest == FirstInsertions(SubSeq(keys, 1, Len(keys) - 1))
             last == keys[Len(keys)]
         IN  IF last \in Range(rest) THEN rest ELSE Append(rest, last)

\* Object.entries / Object.keys order: integer-like keys first, ascending,
\* then the string keys in insertion order.
ObjectKeys(inserted) ==
    LET ins  == FirstInsertions(inserted)
        nums == SelectSeq(ins, LAMBDA k : k \in IndexKeys)
        strs == SelectSeq(ins, LAMBDA k : k \notin IndexKeys)
        byValue == SortByScore([i \in 1..Len(nums) |->
                                  [id |-> nums[i], score |-> IndexValue(nums[i])]])
    IN  [i \in 1..Len(byValue) |-> byValue[i].id] \o strs

\* ----------------------------------------------------------------- requests

Engines == {"balancer", "scheduler"}

Days == 1..MaxDates

\* The ids the balancer may invent for a worker that has neither id nor name
\* (`staff_${Math.random().toString(36).slice(2, 8)}`).
RandomIds == {"staff_x", "staff_y"}

Worker(id, name, pref, unav, maxDays) ==
    [id |-> id, name |-> name, preferred_dates |-> pref,
     unavailable_dates |-> unav, max_days |-> maxDays]

PlainWorker(id) == Worker(Some(id), Undefined, {}, {}, Undefined)

\* The worker entries of the enumerated requests.  Day 1 is the day the
\* preferences and absences are about; the date lists put it first, last,
\* twice or not at all.
BalancerProfiles ==
    { PlainWorker("a"),
      Worker(Some("b"), Undefined, {1}, {}, Undefined),
      Worker(Some("a"), Undefined, {}, {1}, Some(1)),
      PlainWorker("1"),
      Worker(Undefined, Undefined, {}, {}, Undefined) }

\* POST of generate-shift copies id, name, preferred_dates and
\* unavailable_dates only: a scheduler entry never carries max_days.
SchedulerProfiles ==
    { PlainWorker("a"),
      Worker(Some("b"), Undefined, {1}, {}, Undefined),
      Worker(Some("a"), Undefined, {}, {1}, Undefined) }

Constraints(min, max, consecutive, perWeek) ==
    [min_staff_per_day |-> min, max_staff_per_day |-> max,
     max_consecutive_days |-> consecutive, max_days_per_week |-> perWeek]

NoConstraints == Constraints(Undefined, Undefined, Undefined, Undefined)

BalancerConstraints ==
    { NoConstraints,
      Constraints(Undefined, Some(1), Undefined, Undefined),
      Constraints(Some(2), Undefined, Undefined, Undefined),
      Constraints(Some(2), Some(1), Undefined, Undefined) }

SchedulerConstraints ==
    { NoConstraints,
      Constraints(Some(1), Some(1), Some(1), Undefined),
      Constraints(Some(1), Some(2), Some(2), Some(1)),
      Constraints(Some(2), Some(1), Undefined, Undefined) }

DateLists == SeqsUpTo(Days, MaxDates)

Request(staff, dates, constraints) ==
    [staff |-> staff, dates |-> dates, constraints |-> constraints]

BalancerRequests ==
    { Request(s, d, c) : s \in SeqsUpTo(BalancerProfiles, MaxStaff),
                         d \in DateLists, c \in BalancerConstraints }

SchedulerRequests ==
    { r \in { Request(s, d, c) : s \in SeqsUpTo(SchedulerProfiles, MaxStaff),
                                 d \in DateLists, c \in SchedulerConstraints } :
        Len(r.staff) * Len(r.dates) <= MaxCells }

\* Requests on which the scheduler's defaults bind: one worker over six
\* consecutive days (max_consecutive_days 3, max_days_per_week 5), and four
\* workers on one day (max_staff_per_day 3).
DefaultsRequests ==
    { Request(<<PlainWorker("a")>>, <<1, 2, 3, 4, 5, 6>>, NoConstraints),
      Request(<<PlainWorker("a"), PlainWorker("b"), PlainWorker("1"),
                PlainWorker("2")>>, <<1>>, NoConstraints) }

\* Requests with longer date lists, on consecutive days from day 1 on:
\*   two equal workers over ten days, one wanted per day;
\*   a worker who is away for ten days listed before one who works them all
\*   and asks for the eleventh, one wanted per day.
BalancerLongRequests ==
    { Request(<<PlainWorker("a"), PlainWorker("b")>>,
              <<1, 2, 3, 4, 5, 6, 7, 8, 9, 10>>,
              Constraints(Some(1), Some(1), Undefined, Undefined)),
      Request(<<Worker(Some("b"), Undefined, {}, 1..10, Undefined),
                Worker(Some("a"), Undefined, {11}, {}, Undefined)>>,
              <<1, 2, 3, 4, 5, 6, 7, 8, 9, 10, 11>>,
              Constraints(Some(1), Some(1), Undefined, Undefined)) }

\* For the scheduler:
\*   one worker over five days, at most two days in a row;
\*   one worker over nine days, at most eight days in a row;
\*   a worker who is away for five days and one who works them all and asks
\*   for the sixth, one wanted per day.
SchedulerLongRequests ==
    { Request(<<PlainWorker("a")>>, <<1, 2, 3, 4, 5>>,
              Constraints(Some(1), Some(2), Some(2), Undefined)),
      Request(<<PlainWorker("a")>>, <<1, 2, 3, 4, 5, 6, 7, 8, 9>>,
              Constraints(Some(1), Some(1), Some(8), Some(9))),
      Request(<<Worker(Some("b"), Undefined, {}, 1..5, Undefined),
                Worker(Some("a"), Undefined, {6}, {}, Undefined)>>,
              <<1, 2, 3, 4, 5, 6>>,
              Constraints(Some(1), Some(1), Some(7), Some(7))) }

Requests(e) ==
    IF e = "balancer" THEN BalancerRequests \cup BalancerLongRequests
    ELSE SchedulerRequests \cup DefaultsRequests \cup SchedulerLongRequests

\* -------------------------------------------------------------------- state

VARIABLES
    engine,          \* which route's optimizeShift is run
    inputData,       \* the request body, owned by the caller
    runNo,           \* the number of the current run on this body
    prevResult,      \* what the previous run returned
    pc,              \* "start", "loop", "done" (returned success) or "failed"
    staffInfo,       \* staffInfo: id -> the entry's sets and limit
    staffKeys,       \* the keys of staffInfo in Object.keys order
    staffWorkCount,  \* staffWorkCount: id -> assignments so far
    schedule,        \* schedule: date -> the list of that date
    dateIdx,         \* position of the date loop in inputData.dates
    processed,       \* the dates the loop has gone through, in order
    result,          \* the returned object, Undefined until the run returns
    \* The shift generation page (app/shifts/page.js), the shifts
    \* table behind it, and the two POST handlers.
    staffList,       \* staffList: the ids of the staff rows the page has loaded
    pageConstraints, \* constraints: the values of the form
    isGenerating,    \* isGenerating
    handlers,        \* the calls of handleGenerateShift, each with its position
    db,              \* the rows of the shifts table
    post             \* the requests the POST handlers have answered, in order

engineVars == <<engine, inputData, runNo, prevResult, pc, staffInfo, staffKeys,
                staffWorkCount, schedule, dateIdx, processed, result>>

pageVars == <<staffList, pageConstraints, isGenerating, handlers, db, post>>

vars == <<engineVars, pageVars>>

runLocal == <<staffInfo, staffKeys, staffWorkCount, schedule, dateIdx,
              processed>>

EmptyObject == [k \in {} |-> 0]

\* The two error messages, by what they say.
NO_STAFF == "no_staff"
NO_DATES == "no_dates"

Failure(error) == [success |-> FALSE, error |-> error]

\* A row of the shifts table, by the columns of unique_staff_date_time.
Row(staffId, date, startTime) ==
    [staff_id |-> staffId, date |-> date, start_time |-> startTime]

\* A call of handleGenerateShift: where it is, the last toast it has shown,
\* the dates it asked for, the shifts it was given, and what its save has
\* met (the table as it was when the save began, and the steps that failed).
IdleHandler ==
    [pc |-> "idle", toast |-> "none", dates |-> <<>>, shifts |-> {},
     dbBefore |-> {}, deleteFailed |-> FALSE, insertFailed |-> FALSE]

\* The page before it is used: useState([]), useState(false), and the form
\* with no dates.
PageUnused ==
    /\ staffList = <<>>
    /\ pageConstraints = [startDate |-> Undefined, endDate |-> Undefined,
                          minStaffPerDay |-> 2, maxStaffPerDay |-> 5]
    /\ isGenerating = FALSE
    /\ handlers = [h \in 1..MaxClicks |-> IdleHandler]
    /\ db = {}
    /\ post = <<>>

Init ==
    /\ PageUnused
    /\ engine \in Engines
    /\ inputData \in Requests(engine)
    /\ runNo = 1
    /\ prevResult = Undefined
    /\ pc = "start"
    /\ staffInfo = EmptyObject
    /\ staffKeys = <<>>
    /\ staffWorkCount = EmptyObject
    /\ schedule = EmptyObject
    /\ dateIdx = 1
    /\ processed = <<>>
    /\ result = Undefined

\* ----------------------------------------------------------------- balancer

BalancerMinStaff(req) == OrElse(req.constraints.min_staff_per_day, 1)
BalancerMaxStaff(req) == OrElse(req.constraints.max_staff_per_day, Len(req.staff))

\* Faulty variant: the date list is validated before the worker list.
BalancerValidate_DatesFirst(req) ==
    IF Len(req.dates) = 0 THEN Some(NO_DATES)
    ELSE IF Len(req.staff) = 0 THEN Some(NO_STAFF)
    ELSE Undefined

\* Faulty variant: a worker list shorter than the minimum headcount is rejected, as
\* the shift generation page does before it sends a request.
BalancerValidate_RejectsShortStaff(req) ==
    IF Len(req.staff) = 0 THEN Some(NO_STAFF)
    ELSE IF Len(req.dates) = 0 THEN Some(NO_DATES)
    ELSE IF Len(req.staff) < BalancerMinStaff(req) THEN Some("too_few_staff")
    ELSE Undefined

\* The validation at the head of optimizeShift: the error it returns, if any.
BalancerValidate(req) ==
    IF Len(req.staff) = 0 THEN Some(NO_STAFF)
    ELSE IF Len(req.dates) = 0 THEN Some(NO_DATES)
    ELSE Undefined

\* Faulty variant: the worker's own id is not used as the key.
BalancerStaffId_AlwaysRandom(staff, random) == random

\* staff.id || staff.name || `staff_${random}`
BalancerStaffId(staff, random) == OrElse(staff.id, OrElse(staff.name, random))

\* The entry that staffInfo[key] ends up holding: the last one inserted.
LastEntry(ids, key) ==
    CHOOSE i \in 1..Len(ids) : ids[i] = key /\ \A j \in (i + 1)..Len(ids) : ids[j] # key

BalancerStaffInfo(req, ids) ==
    [k \in Range(ids) |->
        LET staff == req.staff[LastEntry(ids, k)]
        IN  [preferredDates |-> staff.preferred_dates,
             unavailableDates |-> staff.unavailable_dates,
             maxDays |-> OrElse(staff.max_days, Len(req.dates))]]

\* Faulty variant: the unavailable dates are not looked at.
BalancerEligible_IgnoresUnavailable(info, count, date) ==
    ~(count >= info.maxDays)

BalancerEligible(info, count, date) ==
    /\ date \notin info.unavailableDates
    /\ ~(count >= info.maxDays)

\* Faulty variant: the assignments so far do not count.
BalancerScore_IgnoresLoad(info, count, date) ==
    0 - (IF date \in info.preferredDates THEN 100 ELSE 0)

BalancerScore(info, count, date) ==
    count * 10 - (IF date \in info.preferredDates THEN 100 ELSE 0)

\* The candidate loop over Object.entries(staffInfo) and the sort.
BalancerAvailableStaff(date, keys, info, counts) ==
    LET eligible == SelectSeq(keys, LAMBDA k : BalancerEligible(info[k], counts[k], date))
    IN  SortByScore([i \in 1..Len(eligible) |->
                       [id |-> eligible[i],
                        score |-> BalancerScore(info[eligible[i]], counts[eligible[i]], date)]])

\* Faulty variant: the commit loop stops one candidate late.
TakeWhileBelow_OneMore(candidates, limit) ==
    SubSeq(candidates, 1, Min2(Len(candidates), Max2(limit, 0) + 1))

\* The commit loop: candidates are taken until assignedCount >= limit.
TakeWhileBelow(candidates, limit) ==
    SubSeq(candidates, 1, Min2(Len(candidates), Max2(limit, 0)))

BalancerReject ==
    /\ engine = "balancer"
    /\ pc = "start"
    /\ BalancerValidate(inputData) # Undefined
    /\ pc' = "failed"
    /\ result' = Some(Failure(ValueOf(BalancerValidate(inputData))))
    /\ UNCHANGED <<engine, inputData, runNo, prevResult, runLocal>>
    /\ UNCHANGED pageVars

\* Faulty variant: staffWorkCount lives outside the call and keeps the counts
\* of the call before.
BalancerSetup_SharedCounts ==
    /\ engine = "balancer"
    /\ pc = "start"
    /\ BalancerValidate(inputData) = Undefined
    /\ \E random \in [1..Len(inputData.staff) -> RandomIds] :
         LET ids == [i \in 1..Len(inputData.staff) |->
                       BalancerStaffId(inputData.staff[i], random[i])]
         IN  /\ staffInfo' = BalancerStaffInfo(inputData, ids)
             /\ staffKeys' = ObjectKeys(ids)
             /\ staffWorkCount' =
                  [k \in Range(ids) |->
                     IF k \in DOMAIN staffWorkCount THEN staffWorkCount[k] ELSE 0]
    /\ schedule' = [d \in Range(inputData.dates) |-> <<>>]
    /\ dateIdx' = 1
    /\ processed' = <<>>
    /\ pc' = "loop"
    /\ UNCHANGED <<engine, inputData, runNo, prevResult, result>>
    /\ UNCHANGED pageVars

BalancerSetup ==
    /\ engine = "balancer"
    /\ pc = "start"
    /\ BalancerValidate(inputData) = Undefined
    /\ \E random \in [1..Len(inputData.staff) -> RandomIds] :
         LET ids == [i \in 1..Len(inputData.staff) |->
                       BalancerStaffId(inputData.staff[i], random[i])]
         IN  /\ staffInfo' = BalancerStaffInfo(inputData, ids)
             /\ staffKeys' = ObjectKeys(ids)
             /\ staffWorkCount' = [k \in Range(ids) |-> 0]
    /\ schedule' = [d \in Range(inputData.dates) |-> <<>>]
    /\ dateIdx' = 1
    /\ processed' = <<>>
    /\ pc' = "loop"
    /\ UNCHANGED <<engine, inputData, runNo, prevResult, result>>
    /\ UNCHANGED pageVars

\* Faulty variant: the commit loop does not count what it commits.
BalancerDate_ForgetsCount ==
    /\ engine = "balancer"
    /\ pc = "loop"
    /\ dateIdx <= Len(inputData.dates)
    /\ LET date == inputData.dates[dateIdx]
           availableStaff == BalancerAvailableStaff(date, staffKeys, staffInfo, staffWorkCount)
           taken == TakeWhileBelow(availableStaff, BalancerMaxStaff(inputData))
       IN  /\ schedule' = [schedule EXCEPT ![date] = @ \o [i \in 1..Len(taken) |-> taken[i].id]]
           /\ processed' = Append(processed, date)
    /\ dateIdx' = dateIdx + 1
    /\ UNCHANGED <<engine, inputData, runNo, prevResult, pc, staffInfo, staffKeys,
                   staffWorkCount, result>>
    /\ UNCHANGED pageVars

BalancerDate ==
    /\ engine = "balancer"
    /\ pc = "loop"
    /\ dateIdx <= Len(inputData.dates)
    /\ LET date == inputData.dates[dateIdx]
           availableStaff == BalancerAvailableStaff(date, staffKeys, staffInfo, staffWorkCount)
           taken == TakeWhileBelow(availableStaff, BalancerMaxStaff(inputData))
       IN  /\ schedule' = [schedule EXCEPT ![date] = @ \o [i \in 1..Len(taken) |-> taken[i].id]]
           /\ staffWorkCount' =
                [k \in DOMAIN staffWorkCount |->
                    staffWorkCount[k] + Cardinality({i \in 1..Len(taken) : taken[i].id = k})]
           /\ processed' = Append(processed, date)
    /\ dateIdx' = dateIdx + 1
    /\ UNCHANGED <<engine, inputData, runNo, prevResult, pc, staffInfo, staffKeys, result>>
    /\ UNCHANGED pageVars

\* Math.round((total / n) * 10), the average in tenths.
RoundedTenths(total, n) == (20 * total + n) \div (2 * n)

BalancerWarnings(req, sched) ==
    LET short == SelectSeq([i \in 1..Len(req.dates) |-> i],
                           LAMBDA i : Len(sched[req.dates[i]]) < BalancerMinStaff(req))
    IN  [j \in 1..Len(short) |->
           [date |-> req.dates[short[j]], min |-> BalancerMinStaff(req),
            count |-> Len(sched[req.dates[short[j]]])]]

BalancerResult(req, sched, counts) ==
    LET warnings == BalancerWarnings(req, sched)
        total == SumOver(counts, DOMAIN counts)
    IN  [success |-> TRUE,
         schedule |-> [i \in 1..Len(req.dates) |->
                         [date |-> req.dates[i], staff |-> sched[req.dates[i]],
                          count |-> Len(sched[req.dates[i]])]],
         stats |-> [total_assignments |-> total,
                    staff_distribution |-> counts,
                    average_per_staff |-> RoundedTenths(total, Len(req.staff)),
                    days_with_shortage |-> Len(warnings)],
         warnings |-> IF Len(warnings) > 0 THEN Some(warnings) ELSE Undefined]

\* Faulty variant: the result shaping empties the caller's date list.
BalancerFinish_ClearsDates ==
    /\ engine = "balancer"
    /\ pc = "loop"
    /\ dateIdx > Len(inputData.dates)
    /\ result' = Some(BalancerResult(inputData, schedule, staffWorkCount))
    /\ inputData' = [inputData EXCEPT !.dates = <<>>]
    /\ pc' = "done"
    /\ UNCHANGED <<engine, runNo, prevResult, runLocal>>
    /\ UNCHANGED pageVars

BalancerFinish ==
    /\ engine = "balancer"
    /\ pc = "loop"
    /\ dateIdx > Len(inputData.dates)
    /\ result' = Some(BalancerResult(inputData, schedule, staffWorkCount))
    /\ pc' = "done"
    /\ UNCHANGED <<engine, inputData, runNo, prevResult, runLocal>>
    /\ UNCHANGED pageVars

\* ---------------------------------------------------------------- scheduler

SHIFT_PATTERNS ==
    << [name |-> "morning",   start_time |-> "09:00", end_time |-> "13:00", hours |-> 4],
       [name |-> "afternoon", start_time |-> "13:00", end_time |-> "17:00", hours |-> 4],
       [name |-> "full",      start_time |-> "09:00", end_time |-> "17:00", hours |-> 8] >>

\* shuffleArray: for i from the last index down to the second, the element at
\* i is swapped with the one at draws[i], 1 <= draws[i] <= i
\* (Math.floor(Math.random() * (i + 1)), counted from 1).
ShuffleDraws(n) == {f \in [2..n -> 1..n] : \A i \in 2..n : f[i] <= i}

RECURSIVE ShuffleFrom(_, _, _)
ShuffleFrom(arr, i, draws) ==
    IF i < 2 THEN arr
    ELSE ShuffleFrom([arr EXCEPT ![i] = arr[draws[i]], ![draws[i]] = arr[i]],
                     i - 1, draws)

shuffleArray(array, draws) == ShuffleFrom(array, Len(array), draws)

\* How far back countConsecutiveDays looks.
CONSECUTIVE_SCAN_DAYS == 7

\* new Date(date), setDate(getDate() - i), toISOString().split('T')[0]: the
\* ISO string of the day i days before, on a server whose clock has a fixed
\* offset from UTC.
PrevDate(date, i) == date - i

WorksOn(staffId, date, sched) ==
    /\ date \in DOMAIN sched
    /\ \E j \in 1..Len(sched[date]) : sched[date][j].staff_id = staffId

RECURSIVE CountBack(_, _, _, _)
CountBack(staffId, date, sched, i) ==
    IF i > CONSECUTIVE_SCAN_DAYS THEN 0
    ELSE IF WorksOn(staffId, PrevDate(date, i), sched)
         THEN 1 + CountBack(staffId, date, sched, i + 1)
         ELSE 0

countConsecutiveDays(staffId, date, sched) == CountBack(staffId, date, sched, 1)

SchedulerValidate(req) ==
    IF Len(req.staff) = 0 THEN Some(NO_STAFF)
    ELSE IF Len(req.dates) = 0 THEN Some(NO_DATES)
    ELSE Undefined

SchedulerMinStaff(req) == OrElse(req.constraints.min_staff_per_day, 2)
SchedulerMaxStaff(req) == OrElse(req.constraints.max_staff_per_day, 3)
MaxConsecutiveDays(req) == OrElse(req.constraints.max_consecutive_days, 3)
MaxDaysPerWeek(req) == OrElse(req.constraints.max_days_per_week, 5)

\* staff.id || staff.name, used as a property key.
SchedulerStaffId(staff) == OrElse(staff.id, OrElse(staff.name, "undefined"))

SchedulerStaffInfo(req, ids) ==
    [k \in Range(ids) |->
        LET staff == req.staff[LastEntry(ids, k)]
        IN  [name |-> staff.name,
             preferredDates |-> staff.preferred_dates,
             unavailableDates |-> staff.unavailable_dates]]

\* Faulty variant: the days worked in a row are not looked at.
SchedulerEligible_IgnoresConsecutive(info, count, consecutiveDays, date, req) ==
    /\ date \notin info.unavailableDates
    /\ ~(count >= MaxDaysPerWeek(req))

\* Faulty variant: the weekly cap is not looked at.
SchedulerEligible_IgnoresWeeklyCap(info, count, consecutiveDays, date, req) ==
    /\ date \notin info.unavailableDates
    /\ ~(consecutiveDays >= MaxConsecutiveDays(req))

SchedulerEligible(info, count, consecutiveDays, date, req) ==
    /\ date \notin info.unavailableDates
    /\ ~(count >= MaxDaysPerWeek(req))
    /\ ~(consecutiveDays >= MaxConsecutiveDays(req))

\* Math.random() * 5 lies in [0, 5): the draws taken are its two ends.
JitterDraws == {0, 4}

\* Faulty variant: an assignment weighs 1, less than the jitter.
SchedulerScore_UnitWeight(info, count, jitter, date) ==
    count + jitter - (IF date \in info.preferredDates THEN 50 ELSE 0)

SchedulerScore(info, count, jitter, date) ==
    count * 10 + jitter - (IF date \in info.preferredDates THEN 50 ELSE 0)

\* Math.floor(Math.random() * (max - min + 1)) + min over Math.random() in
\* [0, 1): min..max when min <= max, and otherwise the floor of a product in
\* (max - min + 1, 0] added to min.
TargetCounts(min, max) ==
    IF max - min + 1 >= 1 THEN min..max ELSE (max + 1)..min

\* Faulty variant: the two times of the pattern are taken the wrong way round.
Shift_SwappedTimes(staffId, date, pattern) ==
    [staff_id |-> staffId, date |-> date, start_time |-> pattern.end_time,
     end_time |-> pattern.start_time, pattern_name |-> pattern.name]

Shift(staffId, date, pattern) ==
    [staff_id |-> staffId, date |-> date, start_time |-> pattern.start_time,
     end_time |-> pattern.end_time, pattern_name |-> pattern.name]

SchedulerReject ==
    /\ engine = "scheduler"
    /\ pc = "start"
    /\ SchedulerValidate(inputData) # Undefined
    /\ pc' = "failed"
    /\ result' = Some(Failure(ValueOf(SchedulerValidate(inputData))))
    /\ UNCHANGED <<engine, inputData, runNo, prevResult, runLocal>>
    /\ UNCHANGED pageVars

SchedulerSetup ==
    /\ engine = "scheduler"
    /\ pc = "start"
    /\ SchedulerValidate(inputData) = Undefined
    /\ LET ids == [i \in 1..Len(inputData.staff) |-> SchedulerStaffId(inputData.staff[i])]
       IN  /\ staffInfo' = SchedulerStaffInfo(inputData, ids)
           /\ staffKeys' = ObjectKeys(ids)
           /\ staffWorkCount' = [k \in Range(ids) |-> 0]
    /\ schedule' = [d \in Range(inputData.dates) |-> <<>>]
    /\ dateIdx' = 1
    /\ processed' = <<>>
    /\ pc' = "loop"
    /\ UNCHANGED <<engine, inputData, runNo, prevResult, result>>
    /\ UNCHANGED pageVars

\* The candidate loop over the shuffled keys and the sort, for one outcome of
\* the shuffle and of the jitter: the ids of availableStaff, in order.
SchedulerAvailableStaff(date, shuffledStaff, info, counts, sched, jitter, req) ==
    LET eligible ==
            SelectSeq(shuffledStaff,
                      LAMBDA k : SchedulerEligible(info[k], counts[k],
                                     countConsecutiveDays(k, date, sched), date, req))
        sorted ==
            SortByScore([i \in 1..Len(eligible) |->
                           [id |-> eligible[i],
                            score |-> SchedulerScore(info[eligible[i]], counts[eligible[i]],
                                          jitter[eligible[i]], date)]])
    IN  [i \in 1..Len(sorted) |-> sorted[i].id]

\* Every availableStaff the shuffle and the jitter can produce for a date in
\* the current state.
RankingOutcomes(date) ==
    { SchedulerAvailableStaff(date, shuffleArray(staffKeys, draws), staffInfo,
                              staffWorkCount, schedule, jitter, inputData) :
        draws \in ShuffleDraws(Len(staffKeys)),
        jitter \in [DOMAIN staffInfo -> JitterDraws] }

\* One iteration of the date loop.  Each \E over a one-element set names a
\* value that is computed once.
SchedulerDate ==
    /\ engine = "scheduler"
    /\ pc = "loop"
    /\ dateIdx <= Len(inputData.dates)
    /\ \E date \in {inputData.dates[dateIdx]} :
       \E availableStaff \in RankingOutcomes(date) :
       \E targetCount \in TargetCounts(SchedulerMinStaff(inputData),
                                       SchedulerMaxStaff(inputData)) :
       \E taken \in {TakeWhileBelow(availableStaff, targetCount)} :
       \E picks \in [1..Len(taken) -> 1..Len(SHIFT_PATTERNS)] :
          /\ schedule' =
               [schedule EXCEPT ![date] = @ \o
                  [i \in 1..Len(taken) |-> Shift(taken[i], date, SHIFT_PATTERNS[picks[i]])]]
          /\ staffWorkCount' =
               [k \in DOMAIN staffWorkCount |->
                  staffWorkCount[k] + Cardinality({i \in 1..Len(taken) : taken[i] = k})]
          /\ processed' = Append(processed, date)
    /\ dateIdx' = dateIdx + 1
    /\ UNCHANGED <<engine, inputData, runNo, prevResult, pc, staffInfo, staffKeys, result>>
    /\ UNCHANGED pageVars

RECURSIVE Flatten(_, _, _)
Flatten(dates, sched, i) ==
    IF i > Len(dates) THEN <<>>
    ELSE sched[dates[i]] \o Flatten(dates, sched, i + 1)

PatternDistribution(shifts) ==
    [n \in {shifts[i].pattern_name : i \in 1..Len(shifts)} |->
        Cardinality({i \in 1..Len(shifts) : shifts[i].pattern_name = n})]

SchedulerResult(req, sched, counts) ==
    LET shifts == Flatten(req.dates, sched, 1)
    IN  [success |-> TRUE,
         shifts |-> shifts,
         stats |-> [total_shifts |-> Len(shifts),
                    staff_distribution |-> counts,
                    pattern_distribution |-> PatternDistribution(shifts)]]

SchedulerFinish ==
    /\ engine = "scheduler"
    /\ pc = "loop"
    /\ dateIdx > Len(inputData.dates)
    /\ result' = Some(SchedulerResult(inputData, schedule, staffWorkCount))
    /\ pc' = "done"
    /\ UNCHANGED <<engine, inputData, runNo, prevResult, runLocal>>
    /\ UNCHANGED pageVars

\* ------------------------------------------------------------------- caller

\* The caller sends the same body again and optimizeShift is called anew.
\* Nothing is done here to what the call before has left behind: it is the
\* set-up of the new call that makes its schedule, staffInfo and
\* staffWorkCount.  Every balancer request is run again, and the scheduler
\* requests of at most MaxRerunCells (worker, date) pairs.
Rerun ==
    /\ \/ engine = "balancer"
       \/ Len(inputData.staff) * Len(inputData.dates) <= MaxRerunCells
    /\ pc \in {"done", "failed"}
    /\ runNo < MaxRuns
    /\ runNo' = runNo + 1
    /\ prevResult' = result
    /\ result' = Undefined
    /\ pc' = "start"
    /\ UNCHANGED <<engine, inputData, runLocal>>
    /\ UNCHANGED pageVars

Next ==
    \/ BalancerReject
    \/ BalancerSetup
    \/ BalancerDate
    \/ BalancerFinish
    \/ SchedulerReject
    \/ SchedulerSetup
    \/ SchedulerDate
    \/ SchedulerFinish
    \/ Rerun

Spec == Init /\ [][Next]_vars

\* ------------------------------------------------------ the POST handlers

Endpoints == {"optimize", "generate-shift"}

\* The request bodies sent to the handlers, by what the code makes of them:
\*   not_json         text that request.json() cannot parse
\*   null             the JSON value null
\*   empty_object     {}
\*   staff_not_array  {staff: "ab", dates: [d]}
\*   null_staff       {staff: [null], dates: [d]}
\*   no_dates         {staff: [w]}
\*   bad_date         {staff: [w], dates: ["x"]}
\*   valid            {staff: [w], dates: [d]}
Bodies == {"not_json", "null", "empty_object", "staff_not_array", "null_staff",
           "no_dates", "bad_date", "valid"}

\* How a call ends: with an exception, or with the object it returns.
Thrown == [thrown |-> TRUE, success |-> FALSE, error |-> Undefined]
Returned(success, error) == [thrown |-> FALSE, success |-> success, error |-> error]

INVALID_STAFF == "invalid_staff"
INVALID_DATES == "invalid_dates"
SYSTEM_ERROR == "system_error"
ERROR_MESSAGE == "error_message"

Response(status, success, error) ==
    [status |-> status, success |-> success, error |-> error]

\* What the balancer's optimizeShift does with a parsed body: it throws on
\* destructuring null, on "ab".forEach and on null.id, fails its validation,
\* or returns success (a date is only a property key to it).
OptimizeRun(body) ==
    CASE body \in {"null", "staff_not_array", "null_staff"} -> Thrown
      [] body = "empty_object" -> Returned(FALSE, Some(Failure(NO_STAFF).error))
      [] body = "no_dates" -> Returned(FALSE, Some(Failure(NO_DATES).error))
      [] OTHER -> Returned(TRUE, Undefined)

\* What the scheduler's optimizeShift does with the requestData of a body
\* that has passed the handler's checks: countConsecutiveDays throws on
\* toISOString of an invalid date.
GenerateRun(body) ==
    IF body = "bad_date" THEN Thrown ELSE Returned(TRUE, Undefined)

\* Faulty variant: POST of optimize without its try and catch.
PostOptimize_NoCatch(body) ==
    IF body = "not_json" \/ OptimizeRun(body).thrown
    THEN Response(0, FALSE, Undefined)
    ELSE Response(IF OptimizeRun(body).success THEN 200 ELSE 400,
                  OptimizeRun(body).success, OptimizeRun(body).error)

\* POST of app/api/optimize/route.js.
PostOptimize(body) ==
    IF body = "not_json" \/ OptimizeRun(body).thrown
    THEN Response(500, FALSE, Some(ERROR_MESSAGE))
    ELSE Response(IF OptimizeRun(body).success THEN 200 ELSE 400,
                  OptimizeRun(body).success, OptimizeRun(body).error)

\* POST of app/api/generate-shift/route.js.
PostGenerateShift(body) ==
    IF body \in {"not_json", "null"} THEN Response(500, FALSE, Some(SYSTEM_ERROR))
    ELSE IF body \in {"empty_object", "staff_not_array"}
         THEN Response(400, FALSE, Some(INVALID_STAFF))
    ELSE IF body = "no_dates" THEN Response(400, FALSE, Some(INVALID_DATES))
    ELSE IF body = "null_staff" \/ GenerateRun(body).thrown
         THEN Response(500, FALSE, Some(SYSTEM_ERROR))
    ELSE IF GenerateRun(body).success THEN Response(200, TRUE, Undefined)
    ELSE Response(400, FALSE, GenerateRun(body).error)

\* Some client sends a body to one of the endpoints and is answered.
ApiPost ==
    /\ Len(post) < MaxPosts
    /\ \E e \in Endpoints : \E body \in Bodies :
          post' = Append(post, [endpoint |-> e, body |-> body,
                                response |-> IF e = "optimize" THEN PostOptimize(body)
                                             ELSE PostGenerateShift(body)])
    /\ UNCHANGED <<staffList, pageConstraints, isGenerating, handlers, db>>
    /\ UNCHANGED engineVars

\* The two endpoints serving requests, the page unused and no engine run
\* followed.
ApiInit ==
    /\ PageUnused
    /\ engine = "balancer"
    /\ inputData = Request(<<>>, <<>>, NoConstraints)
    /\ runNo = 1
    /\ prevResult = Undefined
    /\ pc = "start"
    /\ staffInfo = EmptyObject
    /\ staffKeys = <<>>
    /\ staffWorkCount = EmptyObject
    /\ schedule = EmptyObject
    /\ dateIdx = 1
    /\ processed = <<>>
    /\ result = Undefined

ApiNext == ApiPost

ApiSpec == ApiInit /\ [][ApiNext]_vars

\* ------------------------------------------------- shift generation page

\* The staff lists the page may have loaded, the form values it may hold,
\* and the rows the shifts table may hold when the page is opened.
PageStaffLists == {<<>>, <<"a">>}

FormDates == {Undefined} \cup {Some(d) : d \in 1..MaxRangeDays}

PageForms ==
    { [startDate |-> from, endDate |-> to, minStaffPerDay |-> min, maxStaffPerDay |-> 5] :
        from \in FormDates, to \in FormDates, min \in 0..2 }

StoredRows == SUBSET {Row("a", 1, "09:00"), Row("b", 2, "13:00")}

\* The toasts of handleGenerateShift and saveShiftsToDatabase.
DATES_REQUIRED == "dates_required"
BAD_RANGE == "bad_range"
TOO_FEW_STAFF == "too_few_staff"
GENERATE_FAILED == "generate_failed"
GENERATE_ERROR == "generate_error"
GENERATED == "generated"
SAVE_FAILED == "save_failed"
SAVED == "saved"

\* Faulty variant: the button is never disabled.
ButtonDisabled_Never == FALSE

\* disabled={isGenerating} on the generate button.  A state update made in
\* a click handler is rendered before the next click is dispatched.
ButtonDisabled == isGenerating

\* The three checks at the head of handleGenerateShift: the toast of the
\* first that fails, if any.
PageValidate ==
    IF pageConstraints.startDate = Undefined \/ pageConstraints.endDate = Undefined
    THEN Some(DATES_REQUIRED)
    ELSE IF ValueOf(pageConstraints.startDate) > ValueOf(pageConstraints.endDate)
    THEN Some(BAD_RANGE)
    ELSE IF Len(staffList) < pageConstraints.minStaffPerDay
    THEN Some(TOO_FEW_STAFF)
    ELSE Undefined

\* The dates from startDate to endDate, a day apart.
RangeDates ==
    [i \in 1..(ValueOf(pageConstraints.endDate) - ValueOf(pageConstraints.startDate) + 1) |->
        ValueOf(pageConstraints.startDate) + i - 1]

\* The body the page sends, as the handler sees it: its date list is never
\* empty, its staff list is empty when the page has no staff.
PageBody == IF staffList = <<>> THEN "empty_object" ELSE "valid"

\* The shift lists a successful response may carry for the request: each
\* worker at most once on each date of the request, a date possibly with
\* nobody; as rows, with the first pattern's start time.
Batches(staff, dates) ==
    SUBSET {Row(w, d, SHIFT_PATTERNS[1].start_time) : w \in Range(staff), d \in Range(dates)}

\* The user clicks the generate button: handleGenerateShift up to its first
\* await, the fetch.
Click ==
    /\ ~ButtonDisabled
    /\ \E h \in 1..MaxClicks :
          /\ handlers[h].pc = "idle"
          /\ \A g \in 1..(h - 1) : handlers[g].pc # "idle"
          /\ IF PageValidate # Undefined
             THEN /\ handlers' = [handlers EXCEPT ![h].pc = "ended",
                                                  ![h].toast = ValueOf(PageValidate)]
                  /\ UNCHANGED isGenerating
             ELSE /\ isGenerating' = TRUE
                  /\ handlers' = [handlers EXCEPT ![h].pc = "fetch",
                                                  ![h].dates = RangeDates]
    /\ UNCHANGED <<staffList, pageConstraints, db, post>>
    /\ UNCHANGED engineVars

\* The fetch and response.json() settle: with an exception, with a result
\* that is not a success, or with shifts, and then saveShiftsToDatabase runs
\* up to its first await, the delete.
FetchReturns ==
    /\ \E h \in 1..MaxClicks :
          /\ handlers[h].pc = "fetch"
          /\ \/ /\ handlers' = [handlers EXCEPT ![h].pc = "ended",
                                                 ![h].toast = GENERATE_ERROR]
                /\ isGenerating' = FALSE
             \/ /\ ~PostGenerateShift(PageBody).success
                /\ handlers' = [handlers EXCEPT ![h].pc = "ended",
                                                 ![h].toast = GENERATE_FAILED]
                /\ isGenerating' = FALSE
             \/ /\ PostGenerateShift(PageBody).success
                /\ \E shifts \in Batches(staffList, handlers[h].dates) :
                      handlers' = [handlers EXCEPT ![h].pc = "delete",
                                                   ![h].toast = GENERATED,
                                                   ![h].shifts = shifts,
                                                   ![h].dbBefore = db]
                /\ UNCHANGED isGenerating
    /\ UNCHANGED <<staffList, pageConstraints, db, post>>
    /\ UNCHANGED engineVars

\* The delete of the rows on the dates of the new shifts settles, done or
\* with an error in its result, which is not looked at; the insert is sent.
DeleteReturns ==
    /\ \E h \in 1..MaxClicks :
          /\ handlers[h].pc = "delete"
          /\ \E done \in BOOLEAN :
                /\ db' = IF done
                         THEN {r \in db : r.date \notin {s.date : s \in handlers[h].shifts}}
                         ELSE db
                /\ handlers' = [handlers EXCEPT ![h].pc = "insert",
                                                 ![h].deleteFailed = ~done]
    /\ UNCHANGED <<staffList, pageConstraints, isGenerating, post>>
    /\ UNCHANGED engineVars

\* A new row that has the staff_id, date and start_time of a stored row.
ViolatesUnique(rows, stored) ==
    \E r \in rows : \E q \in stored :
        r.staff_id = q.staff_id /\ r.date = q.date /\ r.start_time = q.start_time

\* The insert settles: with an error (always so when unique_staff_date_time
\* is violated) and no row written, or with every row written.  The save
\* returns and the finally of handleGenerateShift clears the flag.
InsertReturns ==
    /\ \E h \in 1..MaxClicks :
          /\ handlers[h].pc = "insert"
          /\ \E error \in {e \in BOOLEAN : ViolatesUnique(handlers[h].shifts, db) => e} :
                /\ db' = IF error THEN db ELSE db \cup handlers[h].shifts
                /\ handlers' = [handlers EXCEPT ![h].pc = "ended",
                                                 ![h].toast = IF error THEN SAVE_FAILED ELSE SAVED,
                                                 ![h].insertFailed = error]
    /\ isGenerating' = FALSE
    /\ UNCHANGED <<staffList, pageConstraints, post>>
    /\ UNCHANGED engineVars

\* The page is open with its staff loaded and its form filled in; no engine
\* run is followed.
PageInit ==
    /\ staffList \in PageStaffLists
    /\ pageConstraints \in PageForms
    /\ isGenerating = FALSE
    /\ handlers = [h \in 1..MaxClicks |-> IdleHandler]
    /\ db \in StoredRows
    /\ post = <<>>
    /\ engine = "scheduler"
    /\ inputData = Request(<<>>, <<>>, NoConstraints)
    /\ runNo = 1
    /\ prevResult = Undefined
    /\ pc = "start"
    /\ staffInfo = EmptyObject
    /\ staffKeys = <<>>
    /\ staffWorkCount = EmptyObject
    /\ schedule = EmptyObject
    /\ dateIdx = 1
    /\ processed = <<>>
    /\ result = Undefined

PageNext ==
    \/ Click
    \/ FetchReturns
    \/ DeleteReturns
    \/ InsertReturns

PageSpec == PageInit /\ [][PageNext]_vars

\* ------------------------------------------------- what the claims speak of

MinStaffInForce ==
    IF engine = "balancer" THEN BalancerMinStaff(inputData) ELSE SchedulerMinStaff(inputData)

MaxStaffInForce ==
    IF engine = "balancer" THEN BalancerMaxStaff(inputData) ELSE SchedulerMaxStaff(inputData)

\* The worker ids committed to a date, in commit order.
StaffOn(d) ==
    IF engine = "balancer" THEN schedule[d]
    ELSE [i \in 1..Len(schedule[d]) |-> schedule[d][i].staff_id]

\* The number of assignments made to worker w so far in the run.
Assignments(w) ==
    LET n == [d \in DOMAIN schedule |->
                Cardinality({i \in 1..Len(schedule[d]) : StaffOn(d)[i] = w})]
    IN  SumOver(n, DOMAIN schedule)

\* The id a request entry gives its worker, if it gives one.
EntryId(staff) == IF staff.id # Undefined THEN staff.id ELSE staff.name

\* The entries that describe a worker: for an id carried by several entries,
\* the last of them.
InForce(i) ==
    /\ EntryId(inputData.staff[i]) # Undefined
    /\ \A j \in (i + 1)..Len(inputData.staff) :
          EntryId(inputData.staff[j]) # EntryId(inputData.staff[i])

AllHaveIds == \A i \in 1..Len(inputData.staff) : inputData.staff[i].id # Undefined

NonEmptyRequest == Len(inputData.staff) > 0 /\ Len(inputData.dates) > 0

\* ------------------------------------------------------------------- claims

\* C1: after a run of either engine, no date has more workers committed to it
\* than the max_staff_per_day in force for the run.
C1_NeverAboveMaxStaff ==
    pc = "done" => \A d \in DOMAIN schedule : Len(schedule[d]) <= MaxStaffInForce

\* C2: in both engines, whatever is repeated in the worker list or the date
\* list, no worker id appears more than once in the list of a date.
C2_NoWorkerTwiceOnADate ==
    \A d \in DOMAIN schedule :
        \A i, j \in 1..Len(schedule[d]) : i # j => StaffOn(d)[i] # StaffOn(d)[j]

\* C3: in both engines and under every configuration, no worker is committed
\* to a date that the worker's entry lists in unavailable_dates.
C3_NeverOnUnavailableDate ==
    \A i \in 1..Len(inputData.staff) :
        InForce(i) =>
            \A d \in inputData.staff[i].unavailable_dates \cap DOMAIN schedule :
                ValueOf(EntryId(inputData.staff[i])) \notin Range(StaffOn(d))

\* C3 happens: a run has gone through a date that one worker cannot work and
\* committed somebody else to it, and has committed that worker elsewhere.
C3_Witness ==
    /\ pc = "done"
    /\ \E i \in 1..Len(inputData.staff) :
          /\ InForce(i)
          /\ \E d \in inputData.staff[i].unavailable_dates \cap Range(processed) :
                schedule[d] # <<>>
          /\ \E d \in DOMAIN schedule :
                ValueOf(EntryId(inputData.staff[i])) \in Range(StaffOn(d))

\* The cap on the assignments of worker w in this run: the worker's max_days
\* (by default the number of dates) in the balancer, max_days_per_week
\* (by default 5) in the scheduler.
CapOf(w) ==
    IF engine = "scheduler" THEN MaxDaysPerWeek(inputData)
    ELSE LET entries == {i \in 1..Len(inputData.staff) :
                            InForce(i) /\ EntryId(inputData.staff[i]) = Some(w)}
         IN  IF entries = {} THEN Len(inputData.dates)
             ELSE OrElse(inputData.staff[CHOOSE i \in entries : TRUE].max_days,
                         Len(inputData.dates))

\* C4: at every point of a run the assignments made to a worker do not exceed
\* the worker's cap, so a worker who has reached it is left out from then on.
C4_NeverAboveWorkerCap ==
    \A w \in DOMAIN staffWorkCount : Assignments(w) <= CapOf(w)

\* C4 happens: a run went through more dates on which a worker was free than
\* the worker's cap, and the worker ended exactly at the cap.
C4_Witness ==
    /\ pc = "done"
    /\ \E w \in DOMAIN staffWorkCount :
          /\ CapOf(w) >= 1
          /\ Assignments(w) = CapOf(w)
          /\ Cardinality({i \in 1..Len(processed) :
                            processed[i] \notin staffInfo[w].unavailableDates}) > CapOf(w)

\* Worker w is assigned on each of the n calendar days from day d on.
WorksRun(w, d, n) ==
    \A e \in d..(d + n - 1) : e \in DOMAIN schedule /\ w \in Range(StaffOn(e))

\* C5: after a scheduler run with limit k = max_consecutive_days >= 1, no
\* worker is assigned on more than k immediately consecutive calendar dates,
\* whatever list of dates was passed.
C5_ConsecutiveDaysLimit ==
    (engine = "scheduler" /\ pc = "done" /\ MaxConsecutiveDays(inputData) >= 1) =>
        \A w \in DOMAIN staffWorkCount : \A d \in DOMAIN schedule :
            ~WorksRun(w, d, MaxConsecutiveDays(inputData) + 1)

\* C6: a second run of the balancer on the same request, every worker of
\* which has an id, returns what the first run returned: the same schedule
\* in the same order, the same statistics and the same warnings.
C6_BalancerRepeats ==
    (engine = "balancer" /\ runNo > 1 /\ pc \in {"done", "failed"} /\ AllHaveIds) =>
        result = prevResult

\* C6 happens: a second successful run has ended, on a request whose workers
\* all have ids, with assignments made and a shortfall warned of.
C6_Witness ==
    /\ engine = "balancer" /\ runNo > 1 /\ pc = "done" /\ AllHaveIds
    /\ ValueOf(result).stats.total_assignments > 0
    /\ ValueOf(result).warnings # Undefined

\* C7: with an empty worker list a run fails with the no-workers error, also
\* when the date list is empty too; with an empty date list alone it fails
\* with the no-dates error; and a failed run has made no schedule, no
\* workload counts and no step of the date loop.
C7_EmptyInputFailsFirst ==
    /\ Len(inputData.staff) = 0 =>
          /\ pc \in {"start", "failed"}
          /\ pc = "failed" => result = Some(Failure(NO_STAFF))
    /\ (Len(inputData.staff) > 0 /\ Len(inputData.dates) = 0) =>
          /\ pc \in {"start", "failed"}
          /\ pc = "failed" => result = Some(Failure(NO_DATES))
    /\ pc = "failed" =>
          /\ ~NonEmptyRequest
          /\ schedule = EmptyObject
          /\ staffWorkCount = EmptyObject
          /\ processed = <<>>

\* C7 happens: a run on a request with no workers and no dates has failed.
C7_Witness ==
    /\ pc = "failed"
    /\ Len(inputData.staff) = 0
    /\ Len(inputData.dates) = 0

\* C8: a request whose minimum headcount in force is above its maximum
\* headcount in force is invalid: the engine produces no assignment for it.
C8_MinAboveMaxRejected ==
    MinStaffInForce > MaxStaffInForce =>
        /\ pc # "done"
        /\ \A d \in DOMAIN schedule : schedule[d] = <<>>

\* The positions of the date list whose date ended below the minimum.
ShortPositions ==
    {i \in 1..Len(inputData.dates) :
        Len(schedule[inputData.dates[i]]) < MinStaffInForce}

\* The dates the returned object warns about, and the count of shortfall days
\* it reports (none when it has no such field).
WarnedDates ==
    LET r == ValueOf(result)
    IN  IF "warnings" \in DOMAIN r /\ r.warnings # Undefined
        THEN {ValueOf(r.warnings)[i].date : i \in 1..Len(ValueOf(r.warnings))}
        ELSE {}

ReportedShortage ==
    LET stats == ValueOf(result).stats
    IN  IF "days_with_shortage" \in DOMAIN stats THEN stats.days_with_shortage ELSE 0

\* C9: the result of a successful run of either engine warns of exactly the
\* dates that ended below min_staff_per_day, and reports as many shortfall
\* days as there are such dates in the list.
C9_ShortfallReported ==
    pc = "done" =>
        /\ WarnedDates = {inputData.dates[i] : i \in ShortPositions}
        /\ ReportedShortage = Cardinality(ShortPositions)

\* A run that has not returned has a next step: set-up once validation has
\* passed, an iteration of the date loop for which there is an outcome to
\* draw, or the return.
CanStep ==
    /\ pc = "start" =>
          (IF engine = "balancer" THEN BalancerValidate(inputData)
           ELSE SchedulerValidate(inputData)) = Undefined
    /\ (pc = "loop" /\ dateIdx <= Len(inputData.dates) /\ engine = "scheduler") =>
          /\ RankingOutcomes(inputData.dates[dateIdx]) # {}
          /\ TargetCounts(SchedulerMinStaff(inputData), SchedulerMaxStaff(inputData)) # {}

\* C10: a run on a non-empty worker list and a non-empty date list never
\* fails and never stops short: until it has returned it has a next step,
\* the date loop has gone through exactly the dates before its position (so
\* each step brings the return nearer), and it returns success with every
\* date of the list gone through once, in order, however few workers the
\* dates ended with.
C10_ShortStaffingNeverAborts ==
    NonEmptyRequest =>
        /\ pc # "failed"
        /\ CanStep
        /\ pc = "loop" =>
              /\ dateIdx <= Len(inputData.dates) + 1
              /\ processed = SubSeq(inputData.dates, 1, dateIdx - 1)
        /\ pc = "done" =>
              /\ ValueOf(result).success = TRUE
              /\ processed = inputData.dates

\* C10 happens: a run has returned success although on one of its dates
\* nobody could be assigned.
C10_Witness ==
    /\ pc = "done"
    /\ ValueOf(result).success = TRUE
    /\ \E d \in DOMAIN schedule : schedule[d] = <<>>

\* C11: whatever the order of the input list, the dates are gone through in
\* ascending calendar order: no date is processed after a later one.
C11_DatesProcessedAscending ==
    \A i, j \in 1..Len(processed) : i < j => processed[i] <= processed[j]

\* The dates of the list are consecutive calendar days in ascending order.
ConsecutiveAscending(dates) ==
    \A i \in 1..(Len(dates) - 1) : dates[i + 1] = dates[i] + 1

\* The case of C12: the scheduler with a single worker who is never away, a
\* limit k of 1 to 7 days in a row, 1 <= min <= max, a weekly cap that is not
\* below the number of dates, and consecutive ascending dates.
SingleWorkerCase ==
    /\ engine = "scheduler"
    /\ pc \in {"loop", "done"}
    /\ Len(inputData.staff) = 1
    /\ inputData.staff[1].id # Undefined
    /\ inputData.staff[1].unavailable_dates = {}
    /\ MaxConsecutiveDays(inputData) \in 1..7
    /\ 1 <= SchedulerMinStaff(inputData)
    /\ SchedulerMinStaff(inputData) <= SchedulerMaxStaff(inputData)
    /\ MaxDaysPerWeek(inputData) >= Len(inputData.dates)
    /\ ConsecutiveAscending(inputData.dates)

\* C12: in that case the worker is assigned on exactly the processed dates
\* whose position in the list is not a multiple of k + 1.
C12_SingleWorkerPattern ==
    SingleWorkerCase =>
        \A i \in 1..Len(processed) :
            (ValueOf(inputData.staff[1].id) \in Range(StaffOn(inputData.dates[i])))
                <=> (i % (MaxConsecutiveDays(inputData) + 1) # 0)

\* C12 happens: with k = 2 and five days the run has ended with days 1, 2, 4
\* and 5 assigned and day 3 left empty.
C12_Witness ==
    /\ SingleWorkerCase
    /\ pc = "done"
    /\ MaxConsecutiveDays(inputData) = 2
    /\ Len(inputData.dates) = 5
    /\ schedule[inputData.dates[3]] = <<>>
    /\ Assignments(ValueOf(inputData.staff[1].id)) = 4

\* No entry of the request has preferred dates, unavailable dates or max_days.
NoPersonalLimits ==
    \A i \in 1..Len(inputData.staff) :
        /\ inputData.staff[i].preferred_dates = {}
        /\ inputData.staff[i].unavailable_dates = {}
        /\ inputData.staff[i].max_days = Undefined

\* The case of the ten-day scenario: two workers, min = max = 1, ten
\* distinct dates.
TenDayCase ==
    /\ Cardinality(DOMAIN staffWorkCount) = 2
    /\ BalancerMinStaff(inputData) = 1
    /\ BalancerMaxStaff(inputData) = 1
    /\ Len(inputData.dates) = 10
    /\ Cardinality(Range(inputData.dates)) = 10

\* C13: in the balancer, when no worker has preferences, absences or a
\* max_days limit, after every processed date the assignments of any two
\* workers differ by at most 1 (in the running counts and in the schedule);
\* with two workers, min = max = 1 and ten distinct dates each ends with 5.
C13_BalancedCounts ==
    (engine = "balancer" /\ pc \in {"loop", "done"} /\ NoPersonalLimits) =>
        /\ \A v, w \in DOMAIN staffWorkCount :
              /\ staffWorkCount[v] - staffWorkCount[w] <= 1
              /\ Assignments(v) - Assignments(w) <= 1
        /\ (pc = "done" /\ TenDayCase) =>
              \A w \in DOMAIN staffWorkCount : Assignments(w) = 5

\* C13 happens: the ten-day run of two workers has ended, 5 days each.
C13_Witness ==
    /\ engine = "balancer" /\ pc = "done" /\ NoPersonalLimits /\ TenDayCase
    /\ \A w \in DOMAIN staffWorkCount : staffWorkCount[w] = 5

\* C14: with fewer workers than min_staff_per_day the run is not rejected,
\* it goes through all the dates, every date ends below min_staff_per_day
\* and every date is warned about in the result.
C14_TooFewWorkersAllFlagged ==
    (NonEmptyRequest /\ Len(inputData.staff) < MinStaffInForce) =>
        /\ pc # "failed"
        /\ pc = "done" =>
              /\ processed = inputData.dates
              /\ \A d \in DOMAIN schedule : Len(schedule[d]) < MinStaffInForce
              /\ WarnedDates = Range(inputData.dates)

\* The date loop is about to process a date.
DatePending == pc = "loop" /\ dateIdx <= Len(inputData.dates)

\* Every order in which the candidate loop and the sort can leave the
\* eligible workers of a date in the current state.
Rankings(date) ==
    IF engine = "balancer"
    THEN {[i \in 1..Len(r) |-> r[i].id] :
            r \in {BalancerAvailableStaff(date, staffKeys, staffInfo, staffWorkCount)}}
    ELSE RankingOutcomes(date)

Prefers(w, date) == date \in staffInfo[w].preferredDates

\* C15: on the date about to be processed, in both engines and whatever the
\* counts, every eligible worker who prefers the date is ranked before every
\* eligible worker who does not.
C15_PreferenceDominates ==
    DatePending =>
        \A date \in {inputData.dates[dateIdx]} : \A r \in Rankings(date) :
            \A i, j \in 1..Len(r) :
                (Prefers(r[i], date) /\ ~Prefers(r[j], date)) => i < j

\* One iteration of the date loop of either engine has been made.
DateStep == pc = "loop" /\ pc' = "loop" /\ dateIdx' = dateIdx + 1

\* The workers the iteration has committed to its date, in commit order.
NewlyCommitted(date) ==
    LET after == schedule'[date]
        ids   == IF engine = "balancer" THEN after
                 ELSE [i \in 1..Len(after) |-> after[i].staff_id]
    IN  SubSeq(ids, Len(schedule[date]) + 1, Len(ids))

\* The workers eligible for a date in the current state.
EligibleFor(date) ==
    {w \in DOMAIN staffInfo :
        IF engine = "balancer"
        THEN BalancerEligible(staffInfo[w], staffWorkCount[w], date)
        ELSE SchedulerEligible(staffInfo[w], staffWorkCount[w],
                               countConsecutiveDays(w, date, schedule), date, inputData)}

\* The score of a worker for a date, jitter apart.  The scores without
\* jitter are multiples of 10 and the jitter is below 5, so the order of two
\* scores never contradicts the order of the scores without jitter.
BaseScore(w, date) ==
    IF engine = "balancer" THEN BalancerScore(staffInfo[w], staffWorkCount[w], date)
    ELSE SchedulerScore(staffInfo[w], staffWorkCount[w], 0, date)

\* The values targetCount can take.
Targets ==
    IF engine = "balancer" THEN {BalancerMaxStaff(inputData)}
    ELSE TargetCounts(SchedulerMinStaff(inputData), SchedulerMaxStaff(inputData))

\* C16: an iteration of the date loop commits exactly min(targetCount, number
\* of eligible workers) workers, all of them eligible, none twice, in
\* ascending order of score and none scoring more than an eligible worker
\* left out; so, when min <= max, it commits fewer than min_staff_per_day
\* only if fewer than that were eligible.
C16_CommitsLowestScored ==
    [][DateStep =>
        \A date \in {inputData.dates[dateIdx]} :
        \A new \in {NewlyCommitted(date)} :
        \A eligible \in {EligibleFor(date)} :
            /\ \E t \in Targets : Len(new) = Min2(t, Cardinality(eligible))
            /\ Range(new) \subseteq eligible
            /\ Cardinality(Range(new)) = Len(new)
            /\ \A i, j \in 1..Len(new) :
                  i < j => BaseScore(new[i], date) <= BaseScore(new[j], date)
            /\ \A c \in Range(new) : \A e \in eligible \ Range(new) :
                  BaseScore(c, date) <= BaseScore(e, date)
            /\ (MinStaffInForce <= MaxStaffInForce /\ Len(new) < MinStaffInForce) =>
                  Cardinality(eligible) < MinStaffInForce
    ]_vars

\* C16 happens: a run has ended in which a date, processed once, got one of
\* two workers who were both free, one being the most wanted.
C16_Witness ==
    /\ pc = "done"
    /\ NoPersonalLimits
    /\ Cardinality(DOMAIN staffInfo) = 2
    /\ MinStaffInForce = 1
    /\ MaxStaffInForce = 1
    /\ \E i \in 1..Len(inputData.dates) :
          /\ \A j \in 1..Len(inputData.dates) : inputData.dates[j] = inputData.dates[i] => j = i
          /\ Len(schedule[inputData.dates[i]]) = 1

\* C17: in the scheduler every value the target headcount of a date can take
\* lies between min_staff_per_day and max_staff_per_day (by default 2 and 3).
C17_TargetWithinRange ==
    (engine = "scheduler" /\ DatePending) =>
        \A t \in Targets :
            SchedulerMinStaff(inputData) <= t /\ t <= SchedulerMaxStaff(inputData)

\* C18: in the scheduler, for every outcome of the shuffle and of the jitter,
\* of two eligible workers who both prefer the date or both do not, the one
\* with strictly fewer assignments is ranked first.
C18_JitterNeverOverridesLoad ==
    (engine = "scheduler" /\ DatePending) =>
        \A date \in {inputData.dates[dateIdx]} : \A r \in RankingOutcomes(date) :
            \A i, j \in 1..Len(r) :
                (Prefers(r[i], date) = Prefers(r[j], date)
                    /\ staffWorkCount[r[i]] < staffWorkCount[r[j]]) => i < j

\* C18 happens: the scheduler is about to rank two eligible workers of the
\* same preference status and of different counts.
C18_Witness ==
    /\ engine = "scheduler" /\ DatePending
    /\ \E date \in {inputData.dates[dateIdx]} : \E v, w \in EligibleFor(date) :
          /\ Prefers(v, date) = Prefers(w, date)
          /\ staffWorkCount[v] < staffWorkCount[w]

\* The first position of the input worker list that carries the id.
FirstPosition(id) ==
    CHOOSE i \in 1..Len(inputData.staff) :
        /\ inputData.staff[i].id = Some(id)
        /\ \A j \in 1..(i - 1) : inputData.staff[j].id # Some(id)

\* C19: in the balancer, eligible workers whose scores are equal are ranked
\* in the order in which their ids first appear in the input worker list.
C19_TiesKeepInputOrder ==
    (engine = "balancer" /\ DatePending /\ AllHaveIds) =>
        \A r \in {BalancerAvailableStaff(inputData.dates[dateIdx], staffKeys,
                                          staffInfo, staffWorkCount)} :
            \A i, j \in 1..Len(r) :
                (i < j /\ r[i].score = r[j].score) =>
                    FirstPosition(r[i].id) < FirstPosition(r[j].id)

\* The number of calendar days immediately before the date on which the
\* worker is assigned without a break.
RECURSIVE RunBefore(_, _)
RunBefore(w, date) ==
    IF WorksOn(w, date - 1, schedule) THEN 1 + RunBefore(w, date - 1) ELSE 0

\* C20: for every worker and every date of the run, countConsecutiveDays
\* returns the length of the unbroken run of assigned days that ends on the
\* day before the date, however long the run is.
C20_CountsWholeRun ==
    engine = "scheduler" =>
        \A w \in DOMAIN staffWorkCount : \A d \in DOMAIN schedule :
            countConsecutiveDays(w, d, schedule) = RunBefore(w, d)

\* The number of times the id occurs in the list.
Occurrences(ids, w) == Cardinality({i \in 1..Len(ids) : ids[i] = w})

\* What a step of a run does to the workload counts: set-up starts every
\* count at 0, an iteration of the date loop adds to each worker's count his
\* commits of the iteration, at most one, and the return leaves the counts.
CountsStep ==
    /\ (pc = "start" /\ pc' = "loop") =>
          \A w \in DOMAIN staffWorkCount' : staffWorkCount'[w] = 0
    /\ DateStep =>
          \A date \in {inputData.dates[dateIdx]} :
          \A w \in DOMAIN staffWorkCount :
              /\ staffWorkCount'[w] =
                    staffWorkCount[w] + Occurrences(NewlyCommitted(date), w)
              /\ Occurrences(NewlyCommitted(date), w) <= 1
    /\ (pc = "loop" /\ pc' = "done") => staffWorkCount' = staffWorkCount
    /\ (pc = "loop" /\ pc' \in {"loop", "done"}) =>
          /\ DOMAIN staffWorkCount' = DOMAIN staffWorkCount
          /\ \A w \in DOMAIN staffWorkCount : staffWorkCount'[w] >= staffWorkCount[w]

\* C21: a worker's count starts at 0, grows by exactly 1 with each commit of
\* the worker, never goes down, and at every point of the run is the number
\* of assignments the schedule records for the worker.
C21_CountsMatchSchedule ==
    /\ [](pc \in {"loop", "done"} =>
            \A w \in DOMAIN staffWorkCount : staffWorkCount[w] = Assignments(w))
    /\ [][CountsStep]_vars

\* C21 happens: a run has ended in which a worker was committed more than
\* once and another not at all.
C21_Witness ==
    /\ pc = "done"
    /\ \E v, w \in DOMAIN staffWorkCount :
          staffWorkCount[v] >= 2 /\ staffWorkCount[w] = 0

\* The sum of the values of a function or of a sequence of numbers.
Total(f) == SumOver(f, DOMAIN f)

\* The number of assignment records a result returns.
RecordsReturned ==
    LET r == ValueOf(result)
    IN  IF engine = "balancer"
        THEN Total([i \in 1..Len(r.schedule) |-> Len(r.schedule[i].staff)])
        ELSE Len(r.shifts)

ReportedTotal ==
    IF engine = "balancer" THEN ValueOf(result).stats.total_assignments
    ELSE ValueOf(result).stats.total_shifts

\* C22: in a successful result the reported total is the number of
\* assignment records returned and the sum of staff_distribution, and in the
\* scheduler the sum of pattern_distribution as well.
C22_StatsAgree ==
    pc = "done" =>
        /\ ReportedTotal = RecordsReturned
        /\ ReportedTotal = Total(ValueOf(result).stats.staff_distribution)
        /\ engine = "scheduler" =>
              ReportedTotal = Total(ValueOf(result).stats.pattern_distribution)

\* The minutes after midnight of a time of day, as the TIME columns of the
\* shifts table compare them.
TimeOfDay(t) ==
    CASE t = "09:00" -> 540
      [] t = "13:00" -> 780
      [] t = "17:00" -> 1020

DistinctDates == Cardinality(Range(inputData.dates)) = Len(inputData.dates)

\* C23: every record of the scheduler carries the date it was committed for
\* and the start time, end time and name of one of the SHIFT_PATTERNS, so
\* its end is after its start; and the shifts returned for distinct dates
\* never repeat a (staff_id, date, start_time).
C23_ShiftRecordsWellFormed ==
    engine = "scheduler" =>
        /\ \A d \in DOMAIN schedule : \A i \in 1..Len(schedule[d]) :
              /\ schedule[d][i].date = d
              /\ \E p \in 1..Len(SHIFT_PATTERNS) :
                    /\ schedule[d][i].start_time = SHIFT_PATTERNS[p].start_time
                    /\ schedule[d][i].end_time = SHIFT_PATTERNS[p].end_time
                    /\ schedule[d][i].pattern_name = SHIFT_PATTERNS[p].name
              /\ TimeOfDay(schedule[d][i].end_time) > TimeOfDay(schedule[d][i].start_time)
        /\ (pc = "done" /\ DistinctDates) =>
              \A shifts \in {ValueOf(result).shifts} : \A i, j \in 1..Len(shifts) :
                  i # j => << shifts[i].staff_id, shifts[i].date, shifts[i].start_time >>
                             # << shifts[j].staff_id, shifts[j].date, shifts[j].start_time >>

\* C23 happens: a batch for distinct dates has a worker twice with the same
\* start time, on two dates, and two workers on one date.
C23_Witness ==
    /\ engine = "scheduler" /\ pc = "done" /\ DistinctDates
    /\ \E shifts \in {ValueOf(result).shifts} : \E i, j, k \in 1..Len(shifts) :
          /\ shifts[i].staff_id = shifts[j].staff_id
          /\ shifts[i].start_time = shifts[j].start_time
          /\ shifts[i].date # shifts[j].date
          /\ shifts[k].date = shifts[i].date
          /\ shifts[k].staff_id # shifts[i].staff_id

\* C24: a run owes nothing to the runs before it.  Its date loop begins with
\* every count at 0 and every list empty, no count is ever more than the
\* number of dates this run has gone through, and a run that draws nothing
\* at random returns what the run before returned.
C24_RunsDoNotInterfere ==
    /\ (pc = "loop" /\ dateIdx = 1) =>
          /\ processed = <<>>
          /\ \A w \in DOMAIN staffWorkCount : staffWorkCount[w] = 0
          /\ \A d \in DOMAIN schedule : schedule[d] = <<>>
    /\ pc \in {"loop", "done"} =>
          /\ DOMAIN schedule = Range(inputData.dates)
          /\ \A w \in DOMAIN staffWorkCount : staffWorkCount[w] <= Len(processed)
    /\ (engine = "balancer" /\ runNo > 1 /\ pc = "done" /\ AllHaveIds) =>
          result = prevResult

\* C24 happens: a second run of the scheduler has begun its date loop with
\* the run before having made assignments.
C24_Witness ==
    /\ runNo > 1
    /\ pc = "loop" /\ dateIdx = 1
    /\ engine = "scheduler"
    /\ ValueOf(prevResult).success = TRUE
    /\ ValueOf(prevResult).stats.total_shifts > 0

\* C25: no step of a run, successful or failed, changes the request body:
\* the worker list with the preferred and unavailable dates, the date list
\* and the constraints.
C25_InputUnchanged ==
    [][inputData' = inputData]_vars

\* C25 happens: a run has returned success on a request whose workers have
\* preferred and unavailable dates and whose constraints are given.
C25_Witness ==
    /\ pc = "done"
    /\ \E i, j \in 1..Len(inputData.staff) :
          /\ inputData.staff[i].preferred_dates # {}
          /\ inputData.staff[j].unavailable_dates # {}
    /\ inputData.constraints # NoConstraints

\* The bodies on which an exception is thrown while the request is read or
\* the engine runs, and those that fail the validation of the input.
ExceptionOn(e, body) ==
    \/ body \in {"not_json", "null", "null_staff"}
    \/ e = "optimize" /\ body = "staff_not_array"
    \/ e = "generate-shift" /\ body = "bad_date"

ValidationFailsOn(e, body) ==
    \/ body \in {"empty_object", "no_dates"}
    \/ e = "generate-shift" /\ body = "staff_not_array"

\* C26: every request to either POST handler is answered with a status and
\* a success flag: 500 and success false exactly when an exception is thrown,
\* 400, success false and an error message exactly when the validation of
\* the input fails, 200 and success true otherwise.
C26_EveryPostAnswered ==
    \A i \in 1..Len(post) :
        \A e \in {post[i].endpoint} : \A body \in {post[i].body} :
        \A r \in {post[i].response} :
            /\ r.status \in {200, 400, 500}
            /\ r.success <=> r.status = 200
            /\ r.status = 500 <=> ExceptionOn(e, body)
            /\ r.status = 400 <=> ValidationFailsOn(e, body)
            /\ r.status = 400 => r.error # Undefined

\* C26 happens: the handler of optimize has answered a body on which the
\* engine throws, and the other handler a body it cannot read.
C26_Witness ==
    \E i, j \in 1..Len(post) :
        /\ post[i].endpoint = "optimize"
        /\ post[i].body = "staff_not_array"
        /\ post[j].endpoint = "generate-shift"
        /\ post[j].body = "not_json"

\* Call h of handleGenerateShift has ended and none has been made since.
LastEnded(h) ==
    /\ handlers[h].pc = "ended"
    /\ \A g \in (h + 1)..MaxClicks : handlers[g].pc = "idle"

\* C27: when a generation has ended with its shifts saved, the rows stored
\* on the dates of the requested range are exactly the shifts generated.
C27_RangeReplaced ==
    \A h \in 1..MaxClicks :
        (LastEnded(h) /\ handlers[h].toast = SAVED) =>
            {r \in db : r.date \in Range(handlers[h].dates)} = handlers[h].shifts

\* C28: when the delete or the insert of a save has failed, the table is as
\* it was before the save and the save is not reported as done.
C28_SaveAllOrNothing ==
    \A h \in 1..MaxClicks :
        (LastEnded(h) /\ (handlers[h].deleteFailed \/ handlers[h].insertFailed)) =>
            /\ db = handlers[h].dbBefore
            /\ handlers[h].toast # SAVED

\* The calls of handleGenerateShift that wait for the fetch or for the save.
InProgress == {h \in 1..MaxClicks : handlers[h].pc \in {"fetch", "delete", "insert"}}

\* C29: at most one generation is in progress at any time, and isGenerating
\* is set exactly while one is: from the click that sends the request until
\* its shifts are saved or it has failed.
C29_NoDoubleSubmission ==
    /\ Cardinality(InProgress) <= 1
    /\ isGenerating <=> InProgress # {}

\* C29 happens: a generation has been saved, another has failed, and the
\* button is enabled again.
C29_Witness ==
    /\ ~isGenerating
    /\ \E g, h \in 1..MaxClicks :
          /\ handlers[g].toast = SAVED
          /\ handlers[h].toast \in {GENERATE_ERROR, SAVE_FAILED}
          /\ handlers[g].pc = "ended" /\ handlers[h].pc = "ended"

====
